---- MODULE Spec2Model ----
(***************************************************************************)
(* A model of slog-scope-futures: the SlogScope future wrapper, which      *)
(* wraps every poll of an inner future in slog_scope::scope, so that the   *)
(* wrapper's logger is the ambient logger exactly while the inner future   *)
(* runs.                                                                   *)
(*                                                                         *)
(* The scope stack is slog_scope's thread-local stack of loggers; the      *)
(* call chain (frames) is the thread's stack of SlogScope::poll            *)
(* activations, each with its position inside poll.                        *)
(***************************************************************************)
EXTENDS Integers, Sequences, FiniteSets, TLC

\* Each wrapper is polled at most MaxPolls times.
MaxPolls == 2

\* The wrapper instances the application may construct, numbered in the
\* order of their construction.
Wrappers == {1, 2}

\* The loggers handed to wrappers, and the scope stacks the caller of the
\* executor may already have established.
Loggers == {"L1", "L2"}

\* The loggers a wrapper may be given. Loggers are interchangeable, so the
\* logger of the second wrapper is named L1, and the first wrapper has either
\* the same logger or another one.
LoggersFor(w) == IF w = 2 THEN {"L1"} ELSE Loggers

BaseStacks == {<< >>, <<"L0">>}

NoOutcome == [kind |-> "None", val |-> 0]
Pending == [kind |-> "Pending", val |-> 0]
Ready(v) == [kind |-> "Ready", val |-> v]
Err(e) == [kind |-> "Err", val |-> e]
Panic(p) == [kind |-> "Panic", val |-> p]

Values == {42, 7}

\* What one resumption of a future can end with besides Pending: completion
\* with a value, an error (Err(e) of a futures-0.1 future, future01.rs), or
\* a panic unwinding out of poll.
Terminals == {Ready(x) : x \in Values} \cup {Err(3), Panic(1)}

\* A future polled again after it has ended panics.
PolledAfterEnd == Panic(2)

VARIABLES
    base,         \* the scope stack before any wrapper was polled
    scope_stack,  \* slog_scope's thread-local stack of loggers
    wrappers,     \* the SlogScope values: logger, inner
    frames,       \* the active SlogScope::poll calls, outermost first
    returned      \* what the executor's last poll call returned

vars == <<base, scope_stack, wrappers, frames, returned>>

NoChild == 0

NoInner == [delay |-> 0, result |-> NoOutcome, child |-> NoChild, n |-> 0]

NoLast == [outcome |-> NoOutcome, seen |-> "none"]

\* logger and inner are SlogScope's fields. The rest is bookkeeping of the
\* model: how the wrapper was made and from which arguments, how often it
\* was polled, and what its last poll saw and returned.
NoWrapper == [state |-> "none", logger |-> "none", inner |-> NoInner,
              via |-> "none", arg_logger |-> "none", arg_inner |-> NoInner,
              polls |-> 0, last |-> NoLast]

DroppedWrapper == [NoWrapper EXCEPT !.state = "dropped"]

NoReturn == [w |-> 0, outcome |-> NoOutcome, produced |-> NoOutcome,
             events |-> << >>, stack |-> << >>, pre |-> << >>]

\* slog_scope::logger(): the top of the scope stack, or the global logger.
Ambient(stack) == IF stack = << >> THEN "global" ELSE stack[Len(stack)]

\* The inner futures of the model: Pending for `delay` resumptions, then
\* `result`; `child` is a wrapper the future owns and resumes synchronously
\* at the start of each resumption.
Inners ==
    [delay : 0..(MaxPolls - 1), result : Terminals, child : {NoChild},
     n : {0}]

\* inner.poll(cx): the outcome of the next resumption of the inner future.
InnerOutcome(inner) ==
    IF inner.n < inner.delay THEN Pending
    ELSE IF inner.n = inner.delay THEN inner.result
    ELSE PolledAfterEnd

\* SlogScope::new
SlogScope_new(logger, inner) == [logger |-> logger, inner |-> inner]

\* A variant of with_logger with a fault: the wrapper is made with a fixed
\* logger instead of the one given.
with_logger_fixed(self, logger) == SlogScope_new("L2", self)

\* FutureExt::with_logger
with_logger(self, logger) == SlogScope_new(logger, self)

\* Variants of ScopePush with a fault: one that pushes the logger twice, one
\* that pushes nothing, one that puts the logger under the stack.
ScopePushTwice(stack, logger) == Append(Append(stack, logger), logger)
ScopePushNothing(stack, logger) == stack
ScopePushBottom(stack, logger) == <<logger>> \o stack

\* A variant of ScopePush with a fault: a single slot, where the logger
\* takes the place of the entry on top.
ScopePushReplacesTop(stack, logger) ==
    IF stack = << >> THEN <<logger>>
    ELSE [stack EXCEPT ![Len(stack)] = logger]

\* slog_scope::scope entering: the guard pushes the logger.
ScopePush(stack, logger) == Append(stack, logger)

\* Variants of GuardDrop with a fault: explicit pops that are skipped when
\* the closure fails, that keep the scope while the future is pending, or
\* that end the scope only once the future has completed.
GuardDropSkippedOnFailure(stack, outcome) ==
    IF outcome.kind \in {"Err", "Panic"} THEN stack
    ELSE SubSeq(stack, 1, Len(stack) - 1)
GuardDropKeptWhilePending(stack, outcome) ==
    IF outcome.kind = "Pending" THEN stack
    ELSE SubSeq(stack, 1, Len(stack) - 1)
GuardDropOnlyWhenReady(stack, outcome) ==
    IF outcome.kind = "Ready" THEN SubSeq(stack, 1, Len(stack) - 1)
    ELSE stack

\* slog_scope::scope leaving, by return or by unwinding: the guard's drop
\* pops, whatever the closure ended with.
GuardDrop(stack, outcome) == SubSeq(stack, 1, Len(stack) - 1)

\* A variant of PollResult with a fault: an error of the inner future is
\* swallowed and reported as pending.
PollResultErrorSwallowed(outcome) ==
    IF outcome.kind = "Err" THEN Pending ELSE outcome

\* A variant of PollResult with a fault: the wrapper suspends once more of
\* its own and reports a completed future as pending.
PollResultReadyDeferred(outcome) ==
    IF outcome.kind = "Ready" THEN Pending ELSE outcome

\* The value of the scope(...) expression is what the closure returned, and
\* it is poll's return value.
PollResult(outcome) == outcome

Live(w) == wrappers[w].state = "live"

Owned(w) == \E p \in Wrappers : Live(p) /\ wrappers[p].inner.child = w

OnChain(w) == \E i \in 1..Len(frames) : frames[i].w = w

Pollable(w) == Live(w) /\ wrappers[w].polls < MaxPolls

Top == frames[Len(frames)]

SetTop(f) == [frames EXCEPT ![Len(frames)] = f]

\* The Context the executor polls the task of wrapper w with.
TaskContext(w) == [task |-> w]

NoContext == [task |-> 0]

\* A variant of PassContext with a fault: the inner future is polled with a
\* context that wakes no task.
PassContextDetached(cx) == NoContext

\* poll hands the cx it was called with to inner.poll.
PassContext(cx) == cx

NewFrame(w, cx) ==
    [w |-> w, pc |-> "call", pre |-> scope_stack, seen |-> "none",
     cx |-> cx, inner_cx |-> NoContext,
     child_ret |-> NoOutcome, produced |-> NoOutcome, ret |-> NoOutcome,
     events |-> << >>]

Init ==
    /\ base \in BaseStacks
    /\ scope_stack = base
    /\ wrappers = [w \in Wrappers |-> NoWrapper]
    /\ frames = << >>
    /\ returned = NoReturn

\* A wrapper the new one's inner future may own: live, owned by no one else,
\* and not being polled.
Ownable(w, c) == c # w /\ Live(c) /\ ~Owned(c) /\ ~OnChain(c)

\* A variant of Construct with a fault: making the wrapper already pushes its
\* logger.
ConstructPushes(w, made, via, logger, inner, child) ==
    /\ frames = << >>
    /\ wrappers[w].state = "none"
    /\ \A x \in Wrappers : x < w => wrappers[x].state # "none"
    /\ IF child = NoChild THEN TRUE ELSE Ownable(w, child)
    /\ wrappers' = [wrappers EXCEPT ![w] =
            [state |-> "live", logger |-> made.logger,
             inner |-> [made.inner EXCEPT !.child = child],
             via |-> via, arg_logger |-> logger, arg_inner |-> inner,
             polls |-> 0, last |-> NoLast]]
    /\ scope_stack' = Append(scope_stack, made.logger)
    /\ UNCHANGED <<base, frames, returned>>

\* Making a wrapper: the struct is filled in and nothing else happens.
Construct(w, made, via, logger, inner, child) ==
    /\ frames = << >>
    /\ wrappers[w].state = "none"
    /\ \A x \in Wrappers : x < w => wrappers[x].state # "none"
    /\ IF child = NoChild THEN TRUE ELSE Ownable(w, child)
    /\ wrappers' = [wrappers EXCEPT ![w] =
            [state |-> "live", logger |-> made.logger,
             inner |-> [made.inner EXCEPT !.child = child],
             via |-> via, arg_logger |-> logger, arg_inner |-> inner,
             polls |-> 0, last |-> NoLast]]
    /\ UNCHANGED <<base, scope_stack, frames, returned>>

\* SlogScope::new(logger, inner)
New(w, logger, inner, child) ==
    Construct(w, SlogScope_new(logger, inner), "new", logger, inner, child)

\* inner.with_logger(logger)
WithLogger(w, logger, inner, child) ==
    Construct(w, with_logger(inner, logger), "with_logger", logger, inner,
              child)

\* The executor calls poll on a wrapper it holds.
Poll(w) ==
    /\ frames = << >>
    /\ Pollable(w)
    /\ ~Owned(w)
    /\ frames' = <<NewFrame(w, TaskContext(w))>>
    /\ wrappers' = [wrappers EXCEPT ![w].polls = @ + 1]
    /\ returned' = NoReturn
    /\ UNCHANGED <<base, scope_stack>>

\* A variant of ScopeEnter with a fault: poll takes the logger out of the
\* wrapper, which is left with the global logger.
ScopeEnterTakesLogger ==
    /\ frames # << >>
    /\ Top.pc = "call"
    /\ scope_stack' = ScopePush(scope_stack, wrappers[Top.w].logger)
    /\ frames' = SetTop([Top EXCEPT !.pc = "scoped",
                                    !.events = Append(@, "push")])
    /\ wrappers' = [wrappers EXCEPT ![Top.w].logger = "global"]
    /\ UNCHANGED <<base, returned>>

\* poll calls slog_scope::scope(logger.borrow(), ...): the guard is made.
ScopeEnter ==
    /\ frames # << >>
    /\ Top.pc = "call"
    /\ scope_stack' = ScopePush(scope_stack, wrappers[Top.w].logger)
    /\ frames' = SetTop([Top EXCEPT !.pc = "scoped",
                                    !.events = Append(@, "push")])
    /\ UNCHANGED <<base, wrappers, returned>>

ChildOf(w) == wrappers[w].inner.child

HasPollableChild(w) == ChildOf(w) # NoChild /\ Pollable(ChildOf(w))

\* A variant of InnerPollLeaf with a fault: the inner future is polled before
\* the scope is entered.
InnerPollLeafBeforeScope ==
    /\ frames # << >>
    /\ Top.pc = "call"
    /\ ~HasPollableChild(Top.w)
    /\ frames' = SetTop([Top EXCEPT
            !.pc = "inner_done",
            !.seen = Ambient(scope_stack),
            !.inner_cx = PassContext(Top.cx),
            !.produced = InnerOutcome(wrappers[Top.w].inner),
            !.events = @ \o <<"inner_start", "inner_end">>])
    /\ wrappers' = [wrappers EXCEPT ![Top.w].inner.n = @ + 1]
    /\ UNCHANGED <<base, scope_stack, returned>>

\* A variant of InnerPollLeaf with a fault: a fused wrapper, which does not
\* resume an inner future that has ended and reports pending instead.
InnerPollLeafFused ==
    /\ frames # << >>
    /\ Top.pc = "scoped"
    /\ ~HasPollableChild(Top.w)
    /\ LET ended == wrappers[Top.w].inner.n > wrappers[Top.w].inner.delay
       IN /\ frames' = SetTop([Top EXCEPT
                    !.pc = "inner_done",
                    !.seen = IF ended THEN @ ELSE Ambient(scope_stack),
                    !.inner_cx = PassContext(Top.cx),
                    !.produced = IF ended THEN Pending
                                 ELSE InnerOutcome(wrappers[Top.w].inner),
                    !.events = @ \o <<"inner_start", "inner_end">>])
          /\ wrappers' = [wrappers EXCEPT ![Top.w].inner.n =
                    IF ended THEN @ ELSE @ + 1]
    /\ UNCHANGED <<base, scope_stack, returned>>

\* A variant of InnerPollLeaf with a fault: the inner future is resumed twice
\* in one poll of the wrapper.
InnerPollLeafTwice ==
    /\ frames # << >>
    /\ Top.pc = "scoped"
    /\ ~HasPollableChild(Top.w)
    /\ frames' = SetTop([Top EXCEPT
            !.pc = "inner_done",
            !.seen = Ambient(scope_stack),
            !.inner_cx = PassContext(Top.cx),
            !.produced = InnerOutcome(
                [wrappers[Top.w].inner EXCEPT !.n = @ + 1]),
            !.events = @ \o <<"inner_start", "inner_end">>])
    /\ wrappers' = [wrappers EXCEPT ![Top.w].inner.n = @ + 2]
    /\ UNCHANGED <<base, scope_stack, returned>>

\* The closure runs inner.poll: an inner future with nothing to resume reads
\* the ambient logger and ends this resumption.
InnerPollLeaf ==
    /\ frames # << >>
    /\ Top.pc = "scoped"
    /\ ~HasPollableChild(Top.w)
    /\ frames' = SetTop([Top EXCEPT
            !.pc = "inner_done",
            !.seen = Ambient(scope_stack),
            !.inner_cx = PassContext(Top.cx),
            !.produced = InnerOutcome(wrappers[Top.w].inner),
            !.events = @ \o <<"inner_start", "inner_end">>])
    /\ wrappers' = [wrappers EXCEPT ![Top.w].inner.n = @ + 1]
    /\ UNCHANGED <<base, scope_stack, returned>>

\* The closure runs inner.poll: the inner future reads the ambient logger and
\* polls the wrapper it owns.
InnerPollChild ==
    /\ frames # << >>
    /\ Top.pc = "scoped"
    /\ HasPollableChild(Top.w)
    /\ frames' = Append(
            SetTop([Top EXCEPT !.pc = "await",
                               !.seen = Ambient(scope_stack),
                               !.inner_cx = PassContext(Top.cx),
                               !.events = Append(@, "inner_start")]),
            NewFrame(ChildOf(Top.w), PassContext(Top.cx)))
    /\ wrappers' = [wrappers EXCEPT ![ChildOf(Top.w)].polls = @ + 1]
    /\ UNCHANGED <<base, scope_stack, returned>>

\* The nested poll has returned into the inner future, which reads the
\* ambient logger again and ends this resumption; a panic of the nested poll
\* unwinds through it.
InnerResume ==
    /\ frames # << >>
    /\ Top.pc = "resumed"
    /\ frames' = SetTop([Top EXCEPT
            !.pc = "inner_done",
            !.seen = Ambient(scope_stack),
            !.produced = IF Top.child_ret.kind = "Panic"
                         THEN Top.child_ret
                         ELSE InnerOutcome(wrappers[Top.w].inner),
            !.events = Append(@, "inner_end")])
    /\ wrappers' = [wrappers EXCEPT ![Top.w].inner.n = @ + 1]
    /\ UNCHANGED <<base, scope_stack, returned>>

\* The closure has ended: the guard is dropped and scope(...) yields the
\* closure's outcome.
ScopeExit ==
    /\ frames # << >>
    /\ Top.pc = "inner_done"
    /\ scope_stack' = GuardDrop(scope_stack, Top.produced)
    /\ frames' = SetTop([Top EXCEPT !.pc = "popped",
                                    !.ret = PollResult(Top.produced),
                                    !.events = Append(@, "pop")])
    /\ UNCHANGED <<base, wrappers, returned>>

\* poll returns (or unwinds) to the executor.
PollReturnToExecutor ==
    /\ Len(frames) = 1
    /\ Top.pc = "popped"
    /\ returned' = [w |-> Top.w, outcome |-> Top.ret,
                    produced |-> Top.produced,
                    events |-> Append(Top.events, "return"),
                    stack |-> scope_stack, pre |-> Top.pre]
    /\ frames' = << >>
    /\ wrappers' = [wrappers EXCEPT ![Top.w].last =
            [outcome |-> Top.ret, seen |-> Top.seen]]
    /\ UNCHANGED <<base, scope_stack>>

\* poll returns (or unwinds) into the inner future that called it.
PollReturnToParent ==
    /\ Len(frames) > 1
    /\ Top.pc = "popped"
    /\ frames' = [SubSeq(frames, 1, Len(frames) - 1) EXCEPT
            ![Len(frames) - 1].pc = "resumed",
            ![Len(frames) - 1].child_ret = Top.ret]
    /\ wrappers' = [wrappers EXCEPT ![Top.w].last =
            [outcome |-> Top.ret, seen |-> Top.seen]]
    /\ UNCHANGED <<base, scope_stack, returned>>

\* A variant of Drop with a fault: the wrapper has a destructor that pops the
\* scope stack.
DropPopsScope(w) ==
    /\ Live(w)
    /\ ~Owned(w)
    /\ ~OnChain(w)
    /\ wrappers' = [x \in Wrappers |->
            IF x = w \/ x = ChildOf(w) THEN DroppedWrapper ELSE wrappers[x]]
    /\ scope_stack' = SubSeq(scope_stack, 1, Len(scope_stack) - 1)
    /\ UNCHANGED <<base, frames, returned>>

\* The owner lets go of a wrapper it is not polling; the inner future and
\* the wrapper it owns go with it.
Drop(w) ==
    /\ Live(w)
    /\ ~Owned(w)
    /\ ~OnChain(w)
    /\ wrappers' = [x \in Wrappers |->
            IF x = w \/ x = ChildOf(w) THEN DroppedWrapper ELSE wrappers[x]]
    /\ UNCHANGED <<base, scope_stack, frames, returned>>

Next ==
    \/ \E w \in Wrappers :
          \E l \in LoggersFor(w), i \in Inners, c \in Wrappers \cup {NoChild} :
            New(w, l, i, c)
    \/ \E w \in Wrappers :
          \E l \in LoggersFor(w), i \in Inners, c \in Wrappers \cup {NoChild} :
            WithLogger(w, l, i, c)
    \/ \E w \in Wrappers : Poll(w)
    \/ ScopeEnter
    \/ InnerPollLeaf
    \/ InnerPollChild
    \/ InnerResume
    \/ ScopeExit
    \/ PollReturnToExecutor
    \/ PollReturnToParent
    \/ \E w \in Wrappers : Drop(w)

Spec == Init /\ [][Next]_vars

\* A poll call in progress runs to its return.
PollSteps ==
    \/ ScopeEnter
    \/ InnerPollLeaf
    \/ InnerPollChild
    \/ InnerResume
    \/ ScopeExit
    \/ PollReturnToExecutor
    \/ PollReturnToParent

\* The steps under a scheduler that keeps every task it was given: no
\* wrapper is dropped. The wrappers are made by new; with_logger makes the
\* same wrapper.
FairNext ==
    \/ \E w \in Wrappers :
          \E l \in LoggersFor(w), i \in Inners, c \in Wrappers \cup {NoChild} :
            New(w, l, i, c)
    \/ \E w \in Wrappers : Poll(w)
    \/ PollSteps

\* The wrappers under a scheduler that keeps resuming every task it holds
\* and a thread that keeps running the poll call it is in.
FairSpec ==
    /\ Init
    /\ [][FairNext]_vars
    /\ WF_vars(PollSteps)
    /\ \A w \in Wrappers : WF_vars(Poll(w))

----------------------------------------------------------------------------
\* Shorthands of the properties.

LoggerOf(w) == wrappers[w].logger

Failed(outcome) == outcome.kind \in {"Err", "Panic"}

Idle == frames = << >>

\* The frame of a poll call that has left the scope and is about to return.
Returning(f) == f.pc = "popped"

\* The frame of a poll call whose closure is running the inner future.
InScope(f) == f.pc \in {"scoped", "await", "resumed", "inner_done"}

----------------------------------------------------------------------------
\* C1: when a poll call returns, pending or complete, the scope stack is
\* exactly the stack from before the call; between the executor's polls the
\* stack is the original one, however many polls there have been.
C1_StackRestoredAfterPoll ==
    /\ \A i \in 1..Len(frames) :
            Returning(frames[i]) => scope_stack = frames[i].pre
    /\ returned.w # 0 => returned.stack = returned.pre
    /\ Idle => scope_stack = base

\* A second poll of a wrapper has returned pending or complete below a
\* non-empty stack.
C1_Witness ==
    /\ returned.w # 0
    /\ wrappers[returned.w].polls = 2
    /\ returned.outcome.kind \in {"Pending", "Ready"}
    /\ returned.pre = <<"L0">>
    /\ scope_stack = <<"L0">>

\* C2: whenever the inner future reads the ambient logger during a poll of
\* its wrapper, it reads the wrapper's logger.
C2_InnerSeesWrapperLogger ==
    \A i \in 1..Len(frames) :
        /\ frames[i].seen # "none" => frames[i].seen = LoggerOf(frames[i].w)
        /\ frames[i].pc \in {"scoped", "resumed", "inner_done"}
                /\ i = Len(frames)
            => Ambient(scope_stack) = LoggerOf(frames[i].w)

\* An inner future polled below the stack <<L0>> has read L2.
C2_Witness ==
    /\ frames # << >>
    /\ Top.pc = "inner_done"
    /\ Top.seen = "L2"
    /\ LoggerOf(Top.w) = "L2"
    /\ Top.pre = <<"L0">>

\* C3: when the inner future fails (Err or panic), the scope stack is back
\* to the stack from before the call before the failure reaches the caller,
\* and the pop is on the path of every return.
C3_StackRestoredOnFailure ==
    /\ \A i \in 1..Len(frames) :
            /\ Returning(frames[i]) /\ Failed(frames[i].produced)
                => scope_stack = frames[i].pre
            /\ frames[i].pc = "resumed" /\ Failed(frames[i].child_ret)
                => scope_stack = Append(frames[i].pre, LoggerOf(frames[i].w))
    /\ returned.w # 0 /\ Failed(returned.produced)
        => /\ returned.stack = returned.pre
           /\ \E k \in 1..Len(returned.events) : returned.events[k] = "pop"

\* Both an Err and a panic have reached the executor.
C3_Witness ==
    /\ returned.w = 2
    /\ returned.outcome = Panic(1)
    /\ wrappers[1].last.outcome = Err(3)
    /\ returned.pre = <<"L0">>

\* C4: a poll of the wrapper returns exactly what the inner future's poll
\* produced: pending, the same value, or the same failure.
C4_OutcomeUnchanged ==
    /\ \A i \in 1..Len(frames) :
            Returning(frames[i]) => frames[i].ret = frames[i].produced
    /\ returned.w # 0 => returned.outcome = returned.produced
    /\ \A w \in Wrappers :
            /\ Live(w)
            /\ wrappers[w].inner.child = NoChild
            /\ wrappers[w].polls = 1
            /\ wrappers[w].last # NoLast
            => wrappers[w].last.outcome =
                    IF wrappers[w].arg_inner.delay = 0
                    THEN wrappers[w].arg_inner.result ELSE Pending

\* A future that completes at once with 42, wrapped with L1, has been polled
\* once: the poll returned Ready(42) and the future read L1.
C4_Witness ==
    /\ returned.w # 0
    /\ wrappers[returned.w].arg_inner.delay = 0
    /\ wrappers[returned.w].arg_inner.result = Ready(42)
    /\ wrappers[returned.w].polls = 1
    /\ returned.outcome = Ready(42)
    /\ wrappers[returned.w].last.seen = "L1"


\* C5: making a wrapper, by new or by with_logger, pushes nothing: the step
\* that makes it leaves the scope stack and the ambient logger as they were.
C5_ConstructionPushesNothing ==
    [][(\E w \in Wrappers :
            wrappers[w].state = "none" /\ wrappers'[w].state = "live")
        => /\ scope_stack' = scope_stack
           /\ Ambient(scope_stack') = Ambient(scope_stack)]_vars

\* One wrapper made by new and one by with_logger, neither polled yet, and
\* the ambient logger is still the caller's.
C5_Witness ==
    /\ Live(1) /\ wrappers[1].via = "new" /\ wrappers[1].polls = 0
    /\ Live(2) /\ wrappers[2].via = "with_logger" /\ wrappers[2].polls = 0
    /\ base = <<"L0">>
    /\ Ambient(scope_stack) = "L0"

\* The fields of an inner future that say which future it is.
Future(inner) == [inner EXCEPT !.n = 0]

\* C6: a wrapper made by with_logger(logger) from a future behaves, poll for
\* poll, as one made by new(logger, future) from the same logger and future:
\* it holds the same fields, and after equally many polls both have returned
\* the same outcome with the same logger seen inside.
C6_WithLoggerSameAsNew ==
    \A a \in Wrappers, b \in Wrappers :
        /\ Live(a) /\ wrappers[a].via = "new"
        /\ Live(b) /\ wrappers[b].via = "with_logger"
        /\ wrappers[a].arg_logger = wrappers[b].arg_logger
        /\ wrappers[a].arg_inner = wrappers[b].arg_inner
        /\ wrappers[a].inner.child = NoChild
        /\ wrappers[b].inner.child = NoChild
        => /\ wrappers[a].logger = wrappers[b].logger
           /\ Future(wrappers[a].inner) = Future(wrappers[b].inner)
           /\ wrappers[a].polls = wrappers[b].polls
                    /\ ~OnChain(a) /\ ~OnChain(b)
                => /\ wrappers[a].last = wrappers[b].last
                   /\ wrappers[a].inner.n = wrappers[b].inner.n

\* Two wrappers of the same pending-then-ready future and the logger L1, one
\* made each way, have both been polled twice.
C6_Witness ==
    /\ Live(1) /\ Live(2)
    /\ wrappers[1].via # wrappers[2].via
    /\ wrappers[1].arg_logger = "L1" /\ wrappers[2].arg_logger = "L1"
    /\ wrappers[1].arg_inner = wrappers[2].arg_inner
    /\ wrappers[1].arg_inner.delay = 1
    /\ wrappers[1].inner.child = NoChild /\ wrappers[2].inner.child = NoChild
    /\ wrappers[1].polls = 2 /\ wrappers[2].polls = 2
    /\ Idle
    /\ wrappers[2].last = [outcome |-> Ready(7), seen |-> "L1"]

\* The loggers of the poll calls that are inside their scope, outermost first.
ChainLoggers ==
    LET active == SelectSeq(frames, InScope)
    IN [i \in 1..Len(active) |-> LoggerOf(active[i].w)]

\* A wrapper whose last poll returned pending and which is not being polled.
Suspended(w) ==
    Live(w) /\ ~OnChain(w) /\ wrappers[w].last.outcome = Pending

\* C7: with several wrappers polled in any order, the scope stack holds, above
\* the caller's stack, the loggers of the poll calls in progress and nothing
\* else: a wrapper that is suspended contributes no entry, and a poll of
\* another wrapper starts from the stack as it was before the suspended
\* wrapper was polled.
C7_NoLeakBetweenWrappers ==
    /\ scope_stack = base \o ChainLoggers
    /\ \A w \in Wrappers :
            Suspended(w) /\ ~Idle
            => /\ frames[1].pre = base
               /\ frames[1].seen \in {"none", LoggerOf(frames[1].w)}

\* Wrapper 1 (logger L2) is suspended, and the inner future of wrapper 2
\* (logger L1), polled afterwards, has read L1 with only L1 pushed.
C7_Witness ==
    /\ Suspended(1) /\ LoggerOf(1) = "L2"
    /\ Len(frames) = 1 /\ Top.w = 2 /\ LoggerOf(2) = "L1"
    /\ ~Owned(1)
    /\ Top.pc = "inner_done" /\ Top.seen = "L1"
    /\ scope_stack = <<"L1">>

\* C8: with a wrapper polled from inside the inner future of another, the
\* inner one's logger is ambient during the innermost poll, with the outer
\* one's logger right beneath it, and once the inner poll has returned the
\* outer one's logger is ambient again: pushes and pops are in stack order.
C8_NestedScopes ==
    \A i \in 1..Len(frames) :
        /\ i < Len(frames) =>
                /\ frames[i].pc = "await"
                /\ frames[i + 1].pre = Append(frames[i].pre, LoggerOf(frames[i].w))
        /\ i = Len(frames) /\ InScope(frames[i]) =>
                /\ scope_stack = Append(frames[i].pre, LoggerOf(frames[i].w))
                /\ Ambient(scope_stack) = LoggerOf(frames[i].w)
        /\ frames[i].pc \in {"resumed", "inner_done"} /\ frames[i].seen # "none"
                => frames[i].seen = LoggerOf(frames[i].w)

\* The poll of the inner wrapper (L2), where L2 was read, has returned into
\* the outer wrapper's future (L1), which has read L1 again.
C8_Witness ==
    /\ Len(frames) = 1
    /\ Top.pc = "inner_done"
    /\ Top.child_ret # NoOutcome
    /\ LoggerOf(Top.w) = "L1" /\ Top.seen = "L1"
    /\ LoggerOf(ChildOf(Top.w)) = "L2"
    /\ wrappers[ChildOf(Top.w)].last.seen = "L2"
    /\ scope_stack = <<"L0", "L1">>

\* A wrapper of a future that is pending on its first resumption and ends on
\* its second, polled by the executor.
PendingThenDone(w) ==
    /\ Live(w) /\ ~Owned(w)
    /\ wrappers[w].inner.child = NoChild
    /\ wrappers[w].arg_inner.delay = 1

\* C9: for a future that is pending once and then completes, between the two
\* polls the scope stack is the one from before the first poll, without the
\* wrapper's logger; during the second poll the logger is ambient again; and
\* after the second poll the stack is restored once more.
C9_PendingThenComplete ==
    \A w \in Wrappers :
        PendingThenDone(w) =>
            /\ wrappers[w].polls = 1 /\ ~OnChain(w) =>
                    /\ wrappers[w].last.outcome = Pending
                    /\ scope_stack = base \o ChainLoggers
                    /\ Idle => scope_stack = base
            /\ wrappers[w].polls = 2 /\ OnChain(w) /\ InScope(Top) =>
                    Ambient(scope_stack) = LoggerOf(w)
            /\ wrappers[w].polls = 2 /\ ~OnChain(w) =>
                    /\ wrappers[w].last.outcome = wrappers[w].arg_inner.result
                    /\ wrappers[w].last.seen = LoggerOf(w)
                    /\ Idle => scope_stack = base

\* The second poll of such a wrapper with logger L1 has returned Ready(7),
\* and the stack is the caller's again.
C9_Witness ==
    /\ returned.w # 0
    /\ PendingThenDone(returned.w)
    /\ LoggerOf(returned.w) = "L1"
    /\ wrappers[returned.w].polls = 2
    /\ returned.outcome = Ready(7)
    /\ wrappers[returned.w].last.seen = "L1"
    /\ scope_stack = <<"L0">>

\* The events of a poll call up to each of its positions.
EventsAt(pc) ==
    CASE pc = "call" -> << >>
      [] pc = "scoped" -> <<"push">>
      [] pc = "await" -> <<"push", "inner_start">>
      [] pc = "resumed" -> <<"push", "inner_start">>
      [] pc = "inner_done" -> <<"push", "inner_start", "inner_end">>
      [] pc = "popped" -> <<"push", "inner_start", "inner_end", "pop">>

\* C10: within one poll the order is push, start of the inner resumption, end
\* of the inner resumption, pop, return: the wrapper's logger is on the stack
\* from the push to the pop, so for the whole inner resumption, and is off it
\* before and after, so the pop precedes the return of any outcome.
C10_OrderWithinPoll ==
    /\ \A i \in 1..Len(frames) :
            /\ frames[i].events = EventsAt(frames[i].pc)
            /\ InScope(frames[i]) =>
                    /\ Len(scope_stack) > Len(frames[i].pre)
                    /\ scope_stack[Len(frames[i].pre) + 1] = LoggerOf(frames[i].w)
            /\ ~InScope(frames[i]) => scope_stack = frames[i].pre
            /\ frames[i].produced # NoOutcome <=>
                    frames[i].pc \in {"inner_done", "popped"}
    /\ returned.w # 0 =>
            /\ returned.events =
                    <<"push", "inner_start", "inner_end", "pop", "return">>
            /\ returned.stack = returned.pre

\* A poll that ended in a panic has gone through all five events.
C10_Witness ==
    /\ returned.w # 0
    /\ returned.outcome = Panic(1)
    /\ Len(returned.events) = 5
    /\ returned.pre = <<"L0">>

\* How often an event is among the events of a poll call.
Count(events, e) == Cardinality({k \in 1..Len(events) : events[k] = e})

\* C11: each poll of the wrapper enters the scope once and resumes the inner
\* future once, inside the scope and with the context the caller gave; the
\* inner future is resumed as often as the wrapper was polled, never outside
\* a poll call and never twice in one.
C11_OneScopeOneResumptionPerPoll ==
    /\ \A w \in Wrappers :
            Live(w) =>
                IF OnChain(w)
                THEN wrappers[w].inner.n \in
                        {wrappers[w].polls - 1, wrappers[w].polls}
                ELSE wrappers[w].inner.n = wrappers[w].polls
    /\ \A i \in 1..Len(frames) :
            /\ wrappers[frames[i].w].inner.n = wrappers[frames[i].w].polls
                    <=> frames[i].pc \in {"inner_done", "popped"}
            /\ Count(frames[i].events, "push") =
                    IF frames[i].pc = "call" THEN 0 ELSE 1
            /\ frames[i].inner_cx \in {NoContext, frames[i].cx}
            /\ frames[i].inner_cx = frames[i].cx <=> frames[i].pc # "call"
                    /\ frames[i].pc # "scoped"
            /\ frames[i].cx = TaskContext(frames[1].w)
    /\ returned.w # 0 =>
            /\ Count(returned.events, "push") = 1
            /\ Count(returned.events, "inner_start") = 1
            /\ Count(returned.events, "pop") = 1

\* A wrapper polled from inside another's inner future has resumed its own
\* inner future for the second time, with the context of the outer task.
C11_Witness ==
    /\ Len(frames) = 2
    /\ Top.pc = "inner_done"
    /\ wrappers[Top.w].polls = 2
    /\ wrappers[Top.w].inner.n = 2
    /\ Top.inner_cx = TaskContext(frames[1].w)
    /\ Top.w # frames[1].w

Dropped(w) == wrappers[w].state = "dropped"

\* C12: dropping a wrapper between polls, never polled or last pending,
\* leaves the scope stack as it is, with no entry for the dropped wrapper on
\* it, and from then on the wrapper is never polled and its inner future
\* never resumed.
C12_DropLeavesNothing ==
    [][\A w \in Wrappers :
            /\ Live(w) /\ Dropped(w)' =>
                    /\ scope_stack' = scope_stack
                    /\ scope_stack = base \o ChainLoggers
                    /\ ~OnChain(w)
                    /\ frames' = frames
            /\ Dropped(w) =>
                    /\ wrappers'[w] = wrappers[w]
                    /\ ~OnChain(w)'
                    /\ \A p \in Wrappers :
                            wrappers'[p].inner.child # w]_vars

\* Wrapper 1 was dropped after its poll returned pending; wrapper 2, never
\* polled, was dropped too; the stack is the caller's.
C12_Witness ==
    /\ Dropped(1)
    /\ returned.w = 1
    /\ returned.outcome = Pending
    /\ Dropped(2)
    /\ scope_stack = <<"L0">>

\* C13: the logger of a wrapper is the one given to new or with_logger for
\* as long as the wrapper lives: every poll pushes that logger, and no step
\* changes the logger field. Two wrappers with the same logger are two
\* wrappers borrowing one logger; a wrapper with a logger of its own owns it.
C13_LoggerStable ==
    /\ \A w \in Wrappers :
            Live(w) =>
                /\ wrappers[w].logger = wrappers[w].arg_logger
                /\ wrappers[w].logger \in Loggers
                /\ wrappers[w].last.seen \in {"none", wrappers[w].arg_logger}
    /\ \A i \in 1..Len(frames) :
            InScope(frames[i]) =>
                /\ Len(scope_stack) > Len(frames[i].pre)
                /\ scope_stack[Len(frames[i].pre) + 1] =
                        wrappers[frames[i].w].arg_logger

\* Both wrappers hold the logger L1; wrapper 1 is in the scope of its second
\* poll, with L1 pushed again.
C13_Witness ==
    /\ Live(1) /\ Live(2)
    /\ wrappers[1].arg_logger = "L1" /\ wrappers[2].arg_logger = "L1"
    /\ wrappers[1].polls = 2
    /\ wrappers[1].last.seen = "L1"
    /\ Len(frames) = 1 /\ Top.w = 1 /\ Top.pc = "scoped"
    /\ scope_stack = <<"L0", "L1">>

\* C14: a poll only adds one entry on top of the scope stack: the entries
\* from before the call stay where they are and as they are for the whole
\* call, and when the inner future starts to run the stack is one deeper than
\* before the call.
C14_OnlyOneEntryAdded ==
    \A i \in 1..Len(frames) :
        /\ Len(scope_stack) >= Len(frames[i].pre)
        /\ SubSeq(scope_stack, 1, Len(frames[i].pre)) = frames[i].pre
        /\ frames[i].pc = "scoped" =>
                Len(scope_stack) = Len(frames[i].pre) + 1
        /\ InScope(frames[i]) =>
                /\ Len(scope_stack) > Len(frames[i].pre)
                /\ SubSeq(scope_stack, 1, Len(frames[i].pre) + 1) =
                        Append(frames[i].pre, LoggerOf(frames[i].w))
                /\ i = Len(frames) =>
                        Len(scope_stack) = Len(frames[i].pre) + 1

\* The inner future of a wrapper polled from inside another is about to run:
\* the stack holds the caller's entry, the outer logger and the inner one.
C14_Witness ==
    /\ Len(frames) = 2
    /\ Top.pc = "scoped"
    /\ frames[1].pre = <<"L0">>
    /\ Top.pre = <<"L0", "L1">>
    /\ scope_stack = <<"L0", "L1", "L2">>

\* A wrapper, of a future that owns no wrapper, polled after the poll in
\* which its inner future ended.
PolledPastEnd(w) ==
    /\ Live(w) /\ ~OnChain(w)
    /\ wrappers[w].inner.child = NoChild
    /\ wrappers[w].polls > wrappers[w].arg_inner.delay + 1

\* C15: the wrapper keeps no record of completion: a poll made after the
\* inner future has ended pushes the logger, resumes the inner future once
\* more, pops, and returns what that resumption gave (here the panic of a
\* future polled after its end).
C15_NotFused ==
    /\ \A w \in Wrappers :
            PolledPastEnd(w) =>
                /\ wrappers[w].inner.n = wrappers[w].polls
                /\ wrappers[w].last.outcome = PolledAfterEnd
                /\ wrappers[w].last.seen = LoggerOf(w)
    /\ returned.w # 0 /\ PolledPastEnd(returned.w) =>
            /\ returned.outcome = PolledAfterEnd
            /\ returned.events =
                    <<"push", "inner_start", "inner_end", "pop", "return">>
            /\ returned.stack = returned.pre

\* A future that completed with 42 on the first poll of its wrapper has been
\* polled again through the wrapper: the poll ran it inside the scope and
\* returned its panic.
C15_Witness ==
    /\ returned.w # 0
    /\ PolledPastEnd(returned.w)
    /\ wrappers[returned.w].arg_inner.result = Ready(42)
    /\ wrappers[returned.w].polls = 2
    /\ returned.outcome = Panic(2)
    /\ wrappers[returned.w].last.seen = "L2"
    /\ scope_stack = <<"L0">>

\* A wrapper of a future that owns no wrapper and completes with a value on
\* resumption delay + 1, not yet polled beyond that.
WillComplete(w) ==
    /\ Live(w)
    /\ wrappers[w].inner.child = NoChild
    /\ wrappers[w].arg_inner.result.kind = "Ready"
    /\ wrappers[w].polls <= wrappers[w].arg_inner.delay + 1

\* The poll on which the inner future completed has returned its value, and
\* the scope stack holds nothing of the wrapper.
Completed(w) ==
    /\ Live(w) /\ ~OnChain(w)
    /\ wrappers[w].polls = wrappers[w].arg_inner.delay + 1
    /\ wrappers[w].inner.n = wrappers[w].polls
    /\ wrappers[w].last.outcome = wrappers[w].arg_inner.result
    /\ scope_stack = base \o ChainLoggers
    /\ Idle => scope_stack = base

\* C16: the wrapper adds no suspension of its own. Its poll number k returns
\* pending while the inner future is pending and the inner future's value on
\* the poll on which the inner future completes; so, under a scheduler that
\* keeps polling every wrapper it was given, a wrapper whose inner future
\* completes is completed, with the scope stack restored.
C16_CompletesWhenInnerCompletes ==
    /\ [](\A w \in Wrappers :
            WillComplete(w) /\ ~OnChain(w) /\ wrappers[w].polls > 0 =>
                IF wrappers[w].polls <= wrappers[w].arg_inner.delay
                THEN wrappers[w].last.outcome = Pending
                ELSE Completed(w))
    /\ \A w \in Wrappers :
            WillComplete(w) ~> Completed(w)

\* A future that completes with 7 on its second resumption has completed
\* through its wrapper on the wrapper's second poll.
C16_Witness ==
    /\ returned.w # 0
    /\ WillComplete(returned.w)
    /\ Completed(returned.w)
    /\ wrappers[returned.w].arg_inner.delay = 1
    /\ returned.outcome = Ready(7)
    /\ scope_stack = <<"L0">>

====
